---------------------------- MODULE Spec2Model ----------------------------
(***************************************************************************)
(* Model of autoclean/cleaner.py: clean_dataframe, the five-stage cleaning *)
(* pipeline (trim, parse dates, normalize emails, deduplicate, impute)     *)
(* and the audit it returns.                                                *)
(*                                                                         *)
(* A text value is a sequence of one-character strings.  A cell is a      *)
(* record [k, s, n]: k is "null", "str", "num" or "ts"; s is the text of a *)
(* "str" cell; n is the number of a "num" cell, counted in halves (n = 20  *)
(* is 10.0, n = 25 is 12.5) so that the median of two integers is exact,   *)
(* or the instant of a "ts" cell in an order-preserving integer encoding.  *)
(* A column is [name, dtype, vals], a data frame a sequence of columns of  *)
(* equal length.  pandas semantics are those of pandas 1.x/2.x.            *)
(***************************************************************************)
EXTENDS Integers, Sequences, FiniteSets, TLC

VARIABLES
    input,   \* the data frame as it was when clean_dataframe was entered
    df,      \* the caller's data frame object (stages 1-3 write into it)
    res,     \* the local df after line 54: the de-duplicated copy that is returned
    mask,    \* ~norm.duplicated() of line 54, one boolean per row of df
    audit,   \* the audit dict
    pc,      \* the next stage of clean_dataframe
    run,     \* 1 for the first call, 2 for the call on the first call's result
    audit1,  \* in the second call: the audit the first call returned
    session,   \* app.py: the Flask session of one client
    request,   \* app.py: the request handled last
    response,  \* app.py: the response to it
    uploaded,  \* app.py: an upload of this session has been answered with 200
    heap       \* build_audit_summary: the dict and list objects the audit and the
               \* summary are made of

cleanerVars == <<input, df, res, mask, audit, pc, run, audit1>>

appVars == <<session, request, response, uploaded, heap>>

vars == <<input, df, res, mask, audit, pc, run, audit1, session, request, response, uploaded, heap>>

-----------------------------------------------------------------------------
(* Bounds of the model *)

MaxRows == 4

-----------------------------------------------------------------------------
(* Characters and text *)

UPPER == <<"A","B","C","D","E","F","G","H","I","J","K","L","M",
           "N","O","P","Q","R","S","T","U","V","W","X","Y","Z">>

LOWER == <<"a","b","c","d","e","f","g","h","i","j","k","l","m",
           "n","o","p","q","r","s","t","u","v","w","x","y","z">>

DIGITS == <<"0","1","2","3","4","5","6","7","8","9">>

Range(f) == {f[i] : i \in DOMAIN f}

Letters == Range(UPPER) \cup Range(LOWER)

Digits == Range(DIGITS)

\* Code-point order of the characters used, for sorting text (Series.mode sorts).
\* "KELVIN" stands for the one character U+212A (KELVIN SIGN).
CODEPOINTS == <<" ", "%", "+", "-", ".">> \o DIGITS \o <<"@">> \o UPPER
              \o <<"_">> \o LOWER \o <<"KELVIN">>

CharCode(c) == CHOOSE i \in 1..Len(CODEPOINTS) : CODEPOINTS[i] = c

\* str.lower() on one character: A-Z map to a-z, U+212A maps to "k".
LowerChar_AsciiOnly(c) ==
    IF \E i \in 1..Len(UPPER) : UPPER[i] = c
    THEN LOWER[CHOOSE i \in 1..Len(UPPER) : UPPER[i] = c]
    ELSE c

LowerChar(c) ==
    IF \E i \in 1..Len(UPPER) : UPPER[i] = c
    THEN LOWER[CHOOSE i \in 1..Len(UPPER) : UPPER[i] = c]
    ELSE IF c = "KELVIN" THEN "k" ELSE c

Lower(s) == IF s = <<>> THEN <<>> ELSE [i \in 1..Len(s) |-> LowerChar(s[i])]

IsSpace(c) == c = " "

RECURSIVE LStrip(_)
LStrip(s) == IF s = <<>> THEN <<>>
             ELSE IF IsSpace(Head(s)) THEN LStrip(Tail(s)) ELSE s

RECURSIVE RStrip(_)
RStrip(s) == IF s = <<>> THEN <<>>
             ELSE IF IsSpace(s[Len(s)]) THEN RStrip(SubSeq(s, 1, Len(s) - 1)) ELSE s

\* str.strip()
Strip(s) == RStrip(LStrip(s))

\* `sub in s` for Python strings
Contains(s, sub) ==
    \E i \in 0..(Len(s) - Len(sub)) : SubSeq(s, i + 1, i + Len(sub)) = sub

\* s < t in code-point (lexicographic) order
RECURSIVE TextLess(_, _)
TextLess(s, t) ==
    IF t = <<>> THEN FALSE
    ELSE IF s = <<>> THEN TRUE
    ELSE IF Head(s) = Head(t) THEN TextLess(Tail(s), Tail(t))
    ELSE CharCode(Head(s)) < CharCode(Head(t))

AllIn(s, S) == \A i \in 1..Len(s) : s[i] \in S

\* EMAIL_RE.match(s): ^[A-Za-z0-9._%+-]+@[A-Za-z0-9.-]+\.[A-Za-z]{2,}$
EmailLocalChars == Letters \cup Digits \cup {".", "_", "%", "+", "-"}

EmailDomainChars == Letters \cup Digits \cup {".", "-"}

EMAIL_RE(s) ==
    \E a \in 2..Len(s) : \E d \in (a + 2)..Len(s) :
        /\ s[a] = "@"
        /\ s[d] = "."
        /\ AllIn(SubSeq(s, 1, a - 1), EmailLocalChars)
        /\ AllIn(SubSeq(s, a + 1, d - 1), EmailDomainChars)
        /\ Len(s) - d >= 2
        /\ AllIn(SubSeq(s, d + 1, Len(s)), Letters)

-----------------------------------------------------------------------------
(* Cells *)

NA == [k |-> "null", s |-> <<>>, n |-> 0]

Str(s) == [k |-> "str", s |-> s, n |-> 0]

Num(n) == [k |-> "num", s |-> <<>>, n |-> n]

Ts(n) == [k |-> "ts", s |-> <<>>, n |-> n]

\* Series.isna() on one cell
IsNa(c) == c.k = "null"

\* Series.isna().sum()
NullCount(vals) == Cardinality({i \in 1..Len(vals) : IsNa(vals[i])})

NRows(d) == IF d = <<>> THEN 0 ELSE Len(d[1].vals)


-----------------------------------------------------------------------------
(* The audit dict *)

\* {}: a per-column change map with no key
NoChanges == [k \in {} |-> 0]

\* m[key] = val on a Python dict
Put(m, key, val) == (key :> val) @@ m

\* the value None of rows_after before the pipeline has finished
None == -1
\* NewAudit with column_changes built over the object columns only
NewAudit_ObjectOnly(d) ==
    [rows_before        |-> NRows(d),
     rows_after         |-> None,
     duplicates_removed |-> 0,
     columns            |-> [j \in 1..Len(d) |-> d[j].name],
     column_changes     |-> [nm \in {d[j].name : j \in {h \in 1..Len(d) : d[h].dtype = "object"}}
                                |-> NoChanges],
     issues             |-> <<>>]

\* lines 9-16
NewAudit(d) ==
    [rows_before        |-> NRows(d),
     rows_after         |-> None,
     duplicates_removed |-> 0,
     columns            |-> [j \in 1..Len(d) |-> d[j].name],
     column_changes     |-> [nm \in {d[j].name : j \in 1..Len(d)} |-> NoChanges],
     issues             |-> <<>>]

\* df[col]
Column(d, nm) == d[CHOOSE j \in 1..Len(d) : d[j].name = nm]

IsObject(c) == c.dtype = "object"

-----------------------------------------------------------------------------
(* Stage 1: trim whitespace of object columns, empty text becomes null *)

\* Series.astype(str) on one cell of an object column: a missing value
\* becomes the text "nan"
AsStr(c) == IF IsNa(c) THEN <<"n", "a", "n">> ELSE c.s

\* lines 21-23 on one cell
TrimCell(c) ==
    LET t == Strip(AsStr(c)) IN IF t = <<>> THEN NA ELSE Str(t)

TrimVals(vals) == [i \in 1..Len(vals) |-> TrimCell(vals[i])]

\* lines 20, 24, 25
TrimDelta(c) == NullCount(TrimVals(c.vals)) - NullCount(c.vals)

TrimCol(c) == IF IsObject(c) THEN [c EXCEPT !.vals = TrimVals(c.vals)] ELSE c
\* TrimChanges with the test of line 26 written `delta > 0`
TrimChanges_PositiveOnly(c, m) ==
    IF IsObject(c) /\ TrimDelta(c) > 0
    THEN Put(m, "new_nulls_from_empty_strings", TrimDelta(c))
    ELSE m

\* TrimChanges without the test of line 26
TrimChanges_Always(c, m) ==
    IF IsObject(c)
    THEN Put(m, "new_nulls_from_empty_strings", TrimDelta(c))
    ELSE m

TrimChanges(c, m) ==
    IF IsObject(c) /\ TrimDelta(c) # 0
    THEN Put(m, "new_nulls_from_empty_strings", TrimDelta(c))
    ELSE m

-----------------------------------------------------------------------------
(* Stage 2: parse the columns whose name hints at a date *)

\* line 32
IsDateName(name) ==
    LET cl == Lower(name) IN
        \/ Contains(cl, <<"d", "a", "t", "e">>)
        \/ Contains(cl, <<"_", "a", "t">>)
        \/ Contains(cl, <<"t", "i", "m", "e">>)

DigitVal(c) == (CHOOSE i \in 1..Len(DIGITS) : DIGITS[i] = c) - 1

RECURSIVE Number(_)
Number(s) == IF s = <<>> THEN 0
             ELSE 10 * Number(SubSeq(s, 1, Len(s) - 1)) + DigitVal(s[Len(s)])

DaysInMonth(y, m) ==
    IF m = 2
    THEN IF (y % 4 = 0 /\ y % 100 # 0) \/ y % 400 = 0 THEN 29 ELSE 28
    ELSE IF m \in {4, 6, 9, 11} THEN 30 ELSE 31

\* the instant of midnight UTC of y-m-d; 1970-01-01 is 0, later is larger, and
\* a number n read as an instant is n nanoseconds after 1970-01-01
Instant(y, m, d) == (((y - 1970) * 12 + (m - 1)) * 31 + (d - 1)) * 1000

\* a text of the form YYYY-MM-DD naming a day of the calendar
IsIsoDate(s) ==
    /\ Len(s) = 10
    /\ s[5] = "-" /\ s[8] = "-"
    /\ \A i \in {1, 2, 3, 4, 6, 7, 9, 10} : s[i] \in Digits
    /\ Number(SubSeq(s, 6, 7)) \in 1..12
    /\ Number(SubSeq(s, 9, 10)) \in
           1..DaysInMonth(Number(SubSeq(s, 1, 4)), Number(SubSeq(s, 6, 7)))

\* pd.to_datetime(..., errors="coerce", utc=True) on one cell, then
\* tz_convert(None): text that is no date and missing values give NaT,
\* a number is taken as nanoseconds since the epoch
ToDatetime(c) ==
    CASE c.k = "ts"  -> c
      [] c.k = "num" -> Ts(c.n \div 2)
      [] c.k = "str" -> IF IsIsoDate(c.s)
                        THEN Ts(Instant(Number(SubSeq(c.s, 1, 4)),
                                        Number(SubSeq(c.s, 6, 7)),
                                        Number(SubSeq(c.s, 9, 10))))
                        ELSE NA
      [] OTHER       -> NA
\* Parsed with errors="ignore": a value that does not parse is kept
Parsed_KeepUnparsed(vals) ==
    [i \in 1..Len(vals) |->
        IF IsNa(ToDatetime(vals[i])) THEN vals[i] ELSE ToDatetime(vals[i])]

Parsed(vals) == [i \in 1..Len(vals) |-> ToDatetime(vals[i])]

\* line 34
Converted(c) == Len(c.vals) - NullCount(Parsed(c.vals))
\* DateApplies by the values alone ("or parseable ratio is high", line 29)
DateApplies_ByValues(c) == Converted(c) > 0

\* line 35
DateApplies(c) == IsDateName(c.name) /\ Converted(c) > 0

ParseCol(c) ==
    IF DateApplies(c)
    THEN [c EXCEPT !.vals = Parsed(c.vals), !.dtype = "datetime64"]
    ELSE c

ParseChanges(c, m) ==
    IF DateApplies(c) THEN Put(m, "parsed_to_datetime", Converted(c)) ELSE m

-----------------------------------------------------------------------------
(* Stage 3: normalize emails *)

\* line 41
IsEmailName(name) == Contains(Lower(name), <<"e", "m", "a", "i", "l">>)

\* the lambda of lines 42 and 44
EmailValid(c) == ~IsNa(c) /\ EMAIL_RE(c.s)

ValidCount(vals) == Cardinality({i \in 1..Len(vals) : EmailValid(vals[i])})
\* LowerCell lower-casing valid addresses only
LowerCell_OnlyValid(c) == IF c.k = "str" /\ EMAIL_RE(c.s) THEN Str(Lower(c.s)) ELSE c

\* Series.str.lower() on one cell
LowerCell(c) == IF c.k = "str" THEN Str(Lower(c.s)) ELSE c

LowerVals(vals) == [i \in 1..Len(vals) |-> LowerCell(vals[i])]

\* line 40 looping over df.columns: no test of the dtype
EmailApplies_AnyDtype(c) == IsEmailName(c.name)

\* lines 40-41
EmailApplies(c) == IsObject(c) /\ IsEmailName(c.name)

EmailCol(c) == IF EmailApplies(c) THEN [c EXCEPT !.vals = LowerVals(c.vals)] ELSE c
\* EmailChanges recording the counts only when an address is valid
EmailChanges_OnlyIfValid(c, m) ==
    IF EmailApplies(c) /\ ValidCount(c.vals) + ValidCount(LowerVals(c.vals)) > 0
    THEN Put(Put(m, "emails_valid_before", ValidCount(c.vals)),
             "emails_valid_after", ValidCount(LowerVals(c.vals)))
    ELSE m

EmailChanges(c, m) ==
    IF EmailApplies(c)
    THEN Put(Put(m, "emails_valid_before", ValidCount(c.vals)),
             "emails_valid_after", ValidCount(LowerVals(c.vals)))
    ELSE m

-----------------------------------------------------------------------------
(* Stage 4: remove duplicate rows *)
\* NormCell without .str.lower(): a case-sensitive comparison
NormCell_CaseSensitive(c) == IF c.k = "str" THEN Str(Strip(c.s)) ELSE c

\* line 52 on one cell
NormCell(c) == IF c.k = "str" THEN Str(Strip(Lower(c.s))) ELSE c

\* lines 50-52: the copy whose object columns are lower-cased and stripped
Norm(d) ==
    [j \in 1..Len(d) |->
        IF IsObject(d[j])
        THEN [d[j] EXCEPT !.vals = [i \in 1..Len(d[j].vals) |-> NormCell(d[j].vals[i])]]
        ELSE d[j]]

Row(d, i) == [j \in 1..Len(d) |-> d[j].vals[i]]
\* Duplicated with keep="last": a row is marked when an equal row stands after it
Duplicated_KeepLast(d) ==
    [i \in 1..NRows(d) |-> \E h \in (i + 1)..NRows(d) : Row(d, h) = Row(d, i)]

\* DataFrame.duplicated(): a row is marked when an equal row stands before it
\* (missing values compare equal)
Duplicated(d) ==
    [i \in 1..NRows(d) |-> \E h \in 1..(i - 1) : Row(d, h) = Row(d, i)]

\* ~norm.duplicated()
KeepMask(d) == LET dup == Duplicated(Norm(d)) IN [i \in 1..NRows(d) |-> ~dup[i]]

RECURSIVE Select(_, _, _)
Select(vals, m, i) ==
    IF i > Len(vals) THEN <<>>
    ELSE (IF m[i] THEN <<vals[i]>> ELSE <<>>) \o Select(vals, m, i + 1)

\* line 54 selecting the rows of norm, the lower-cased and stripped copy
Loc_OfNorm(d, m) == [j \in 1..Len(d) |-> [Norm(d)[j] EXCEPT !.vals = Select(Norm(d)[j].vals, m, 1)]]

\* df.loc[m, :].copy()
Loc(d, m) == [j \in 1..Len(d) |-> [d[j] EXCEPT !.vals = Select(d[j].vals, m, 1)]]
\* DedupAudit with the test of line 56 written `removed > 1`
DedupAudit_OffByOne(a, before, after) ==
    IF before - after > 1
    THEN [a EXCEPT !.duplicates_removed = before - after]
    ELSE a
\* DedupAudit recording the number of rows kept
DedupAudit_CountsKept(a, before, after) ==
    IF before - after > 0
    THEN [a EXCEPT !.duplicates_removed = after]
    ELSE a

\* lines 53-57
DedupAudit(a, before, after) ==
    IF before - after > 0
    THEN [a EXCEPT !.duplicates_removed = before - after]
    ELSE a

-----------------------------------------------------------------------------
(* Stage 5: impute missing values by dtype *)

NonNull(vals) == {i \in 1..Len(vals) : ~IsNa(vals[i])}

\* the order in which sorting puts two cells of one column
CellLess(a, b) == IF a.k = "str" THEN TextLess(a.s, b.s) ELSE a.n < b.n

\* the k-th smallest of the non-null numbers of vals
Kth(vals, k) ==
    LET I == NonNull(vals)
        i == CHOOSE i \in I :
                /\ Cardinality({h \in I : vals[h].n < vals[i].n}) < k
                /\ Cardinality({h \in I : vals[h].n <= vals[i].n}) >= k
    IN vals[i].n
\* Median taking the lower of the two middle values when the count is even
Median_LowerMiddle(vals) ==
    LET c == Cardinality(NonNull(vals)) IN Kth(vals, (c + 1) \div 2)

\* Series.median(): the middle of the sorted non-null numbers, the mean of the
\* two middle ones when their count is even
Median(vals) ==
    LET c == Cardinality(NonNull(vals)) IN
        IF c % 2 = 1 THEN Kth(vals, (c + 1) \div 2)
        ELSE (Kth(vals, c \div 2) + Kth(vals, c \div 2 + 1)) \div 2

Count(vals, v) == Cardinality({i \in 1..Len(vals) : vals[i] = v})
\* Mode without the frequencies: every non-null value (Series.unique, sorted)
Mode_AllValues(vals) == {vals[i] : i \in NonNull(vals)}

\* Series.mode(dropna=True): the most frequent non-null values (sorted ascending)
Mode(vals) ==
    {vals[i] : i \in {i \in NonNull(vals) :
                        \A h \in NonNull(vals) : Count(vals, vals[h]) <= Count(vals, vals[i])}}
\* mode.iloc[-1]: the last of the sorted modes
First_Last(S) == CHOOSE v \in S : \A w \in S : w = v \/ CellLess(w, v)

\* mode.iloc[0]
First(S) == CHOOSE v \in S : \A w \in S : w = v \/ CellLess(v, w)

IsNumeric(c) == c.dtype = "float64"

IsDatetime(c) == c.dtype = "datetime64"
\* FillValue without the fallbacks of lines 65 and 79: the median and the mode
\* of no value are missing values
FillValue_NoFallback(c) ==
    IF IsNumeric(c)
    THEN (IF NonNull(c.vals) # {} THEN Num(Median(c.vals)) ELSE NA)
    ELSE (IF Mode(c.vals) # {} THEN First(Mode(c.vals)) ELSE NA)

\* lines 65, 72, 79
FillValue(c) ==
    IF IsNumeric(c)
    THEN (IF NonNull(c.vals) # {} THEN Num(Median(c.vals)) ELSE Num(0))
    ELSE IF IsDatetime(c)
    THEN (IF Mode(c.vals) # {} THEN First(Mode(c.vals)) ELSE NA)
    ELSE (IF Mode(c.vals) # {} THEN First(Mode(c.vals))
          ELSE Str(<<"U", "n", "k", "n", "o", "w", "n">>))

\* df.loc[df[col].isna(), col] = val
\* lines 67, 74, 81 as df[col] = val: every cell of the column is assigned
FillNa_WholeColumn(vals, v) == [i \in 1..Len(vals) |-> v]

FillNa(vals, v) == [i \in 1..Len(vals) |-> IF IsNa(vals[i]) THEN v ELSE vals[i]]
\* NeedsImpute without the `continue` of lines 62-63
NeedsImpute_NoSkip(c) == TRUE

\* lines 61-63
NeedsImpute(c) == NullCount(c.vals) # 0
\* ImputeCol with the chained assignment df[col][df[col].isna()] = val, which
\* writes into a temporary: the fill is lost
ImputeCol_ChainedAssignment(c) == c

ImputeCol(c) ==
    IF NeedsImpute(c) THEN [c EXCEPT !.vals = FillNa(c.vals, FillValue(c))] ELSE c

\* f"median={val}", "mode (datetime)", f"mode='{val}'": the kind of the
\* strategy and the value the text embeds (none for a datetime column)
Strategy(c) ==
    IF IsNumeric(c) THEN [kind |-> "median", val |-> FillValue(c)]
    ELSE IF IsDatetime(c) THEN [kind |-> "mode (datetime)", val |-> NA]
    ELSE [kind |-> "mode", val |-> FillValue(c)]

\* lines 82-83 assigning a new map instead of two of its keys
ImputeChanges_NewMap(c, m) ==
    IF NeedsImpute(c)
    THEN Put(Put(NoChanges, "imputed_missing", NullCount(c.vals)),
             "imputation_strategy", Strategy(c))
    ELSE m

ImputeChanges(c, m) ==
    IF NeedsImpute(c)
    THEN Put(Put(m, "imputed_missing", NullCount(c.vals)),
             "imputation_strategy", Strategy(c))
    ELSE m

-----------------------------------------------------------------------------
(* The input data frames of the model *)

T_John     == <<"J", "o", "h", "n">>
T_JohnPad  == <<" ", "J", "o", "h", "n", " ">>
T_john     == <<"j", "o", "h", "n">>
T_Blank    == <<" ", " ">>
T_Bad      == <<"B", "a", "d">>
T_MailUp   == <<"A", "@", "X", ".", "C", "O", "M">>
T_MailLow  == <<"a", "@", "x", ".", "c", "o", "m">>
T_MailKelvin == <<"KELVIN", "@", "x", ".", "c", "o", "m">>
T_Jan      == <<"2", "0", "2", "3", "-", "0", "1", "-", "0", "1">>
T_Feb      == <<"2", "0", "2", "3", "-", "0", "2", "-", "0", "1">>
T_NotADate == <<"2", "0", "2", "3", "-", "0", "2", "-", "3", "0">>

N_name       == <<"n", "a", "m", "e">>
N_email      == <<"e", "m", "a", "i", "l">>
N_Email      == <<"E", "m", "a", "i", "l">>
N_Created_At == <<"C", "r", "e", "a", "t", "e", "d", "_", "A", "t">>
N_age        == <<"a", "g", "e">>
N_email_date == <<"e", "m", "a", "i", "l", "_", "d", "a", "t", "e">>
N_time       == <<"t", "i", "m", "e">>
N_seen       == <<"s", "e", "e", "n">>
N_dob        == <<"d", "o", "b">>
N_id         == <<"i", "d">>

ColSpec(name, dtype, pool) == [name |-> name, dtype |-> dtype, pool |-> pool]

\* the column layouts and, per column, the values its cells are drawn from
Schemas ==
    { << ColSpec(N_name, "object", {Str(T_John), Str(T_JohnPad)}),
         ColSpec(N_email, "object", {Str(T_MailUp), Str(T_MailLow)}) >>,
      << ColSpec(N_name, "object", {Str(T_JohnPad), Str(T_Bad)}),
         ColSpec(N_email, "object", {Str(T_MailUp), Str(<<>>)}) >>,
      << ColSpec(N_name, "object", {Str(T_John), Str(T_john), Str(T_Bad), Str(<<>>)}),
         ColSpec(N_age, "float64", {Num(20), NA}) >>,
      << ColSpec(N_seen, "datetime64", {Ts(1), Ts(2), NA}),
         ColSpec(N_id, "float64", {Num(2), Num(4)}) >>,
      << ColSpec(N_Email, "object",
                 {Str(T_MailUp), Str(T_MailKelvin), Str(T_Bad), Str(T_Blank), NA}) >>,
      << ColSpec(N_Created_At, "object",
                 {Str(T_Jan), Str(T_Feb), Str(T_NotADate), Str(<<>>), NA}) >>,
      << ColSpec(N_age, "float64", {Num(20), Num(40), NA}) >>,
      << ColSpec(N_email_date, "object", {Str(T_MailUp), Str(T_Jan), NA}) >>,
      << ColSpec(N_time, "float64", {Num(2), Num(4), NA}) >>,
      << ColSpec(N_dob, "object", {Str(T_Jan), Str(T_Bad), NA}) >> }

\* the choices of n cells for each of the columns j..Len(sc) of a schema
RECURSIVE Cells(_, _, _)
Cells(sc, n, j) ==
    IF j > Len(sc) THEN {<<>>}
    ELSE {<<v>> \o rest : v \in [1..n -> sc[j].pool], rest \in Cells(sc, n, j + 1)}

Frames(sc, n) ==
    {[j \in 1..Len(sc) |->
        [name |-> sc[j].name, dtype |-> sc[j].dtype, vals |-> cs[j]]] : cs \in Cells(sc, n, 1)}

-----------------------------------------------------------------------------
(* app.py: the session, the requests and the responses *)

\* a session without keys
NoSession == [k \in {} |-> 0]

\* no request handled yet
NoRequest == [route |-> "", has_file |-> FALSE, filename |-> <<>>, readable |-> FALSE,
              frame |-> <<>>]

\* no object allocated
NoHeap == [objects |-> <<>>, summary |-> 0, writes |-> 0]

NoResponse == [status |-> 0, error |-> "", attachment |-> "", cleaner_ran |-> FALSE,
               body |-> <<>>]

-----------------------------------------------------------------------------
(* clean_dataframe, stage by stage *)

Init ==
    /\ \E sc \in Schemas : \E n \in 0..MaxRows : input \in Frames(sc, n)
    /\ df = input
    /\ res = <<>>
    /\ mask = <<>>
    /\ audit = NewAudit(input)
    /\ pc = "trim"
    /\ run = 1
    /\ audit1 = NewAudit(<<>>)
    /\ session = NoSession
    /\ request = NoRequest
    /\ response = NoResponse
    /\ uploaded = FALSE
    /\ heap = NoHeap

\* lines 18-27
Trim ==
    /\ pc = "trim"
    /\ df' = [j \in 1..Len(df) |-> TrimCol(df[j])]
    /\ audit' = [audit EXCEPT !.column_changes =
                    [nm \in DOMAIN @ |-> TrimChanges(Column(df, nm), @[nm])]]
    /\ pc' = "dates"
    /\ UNCHANGED <<input, res, mask, run, audit1, appVars>>

\* lines 29-37
ParseDates ==
    /\ pc = "dates"
    /\ df' = [j \in 1..Len(df) |-> ParseCol(df[j])]
    /\ audit' = [audit EXCEPT !.column_changes =
                    [nm \in DOMAIN @ |-> ParseChanges(Column(df, nm), @[nm])]]
    /\ pc' = "emails"
    /\ UNCHANGED <<input, res, mask, run, audit1, appVars>>

\* lines 39-46
NormalizeEmails ==
    /\ pc = "emails"
    /\ df' = [j \in 1..Len(df) |-> EmailCol(df[j])]
    /\ audit' = [audit EXCEPT !.column_changes =
                    [nm \in DOMAIN @ |-> EmailChanges(Column(df, nm), @[nm])]]
    /\ pc' = "dedup"
    /\ UNCHANGED <<input, res, mask, run, audit1, appVars>>

\* lines 48-57 dropping the rows of the caller's object (drop(..., inplace=True))
Deduplicate_InPlace ==
    /\ pc = "dedup"
    /\ mask' = KeepMask(df)
    /\ res' = Loc(df, KeepMask(df))
    /\ df' = Loc(df, KeepMask(df))
    /\ audit' = DedupAudit(audit, NRows(df), NRows(Loc(df, KeepMask(df))))
    /\ pc' = "impute"
    /\ UNCHANGED <<input, run, audit1, appVars>>

\* lines 48-57
Deduplicate ==
    /\ pc = "dedup"
    /\ mask' = KeepMask(df)
    /\ res' = Loc(df, KeepMask(df))
    /\ audit' = DedupAudit(audit, NRows(df), NRows(Loc(df, KeepMask(df))))
    /\ pc' = "impute"
    /\ UNCHANGED <<input, df, run, audit1, appVars>>

\* lines 59-86
Impute ==
    /\ pc = "impute"
    /\ res' = [j \in 1..Len(res) |-> ImputeCol(res[j])]
    /\ audit' = [audit EXCEPT !.column_changes =
                                [nm \in DOMAIN @ |-> ImputeChanges(Column(res, nm), @[nm])],
                            !.rows_after = NRows(res)]
    /\ pc' = "done"
    /\ UNCHANGED <<input, df, mask, run, audit1, appVars>>

\* clean_dataframe called on the data frame it returned
CleanAgain ==
    /\ pc = "done"
    /\ run = 1
    /\ input' = res
    /\ df' = res
    /\ res' = <<>>
    /\ mask' = <<>>
    /\ audit' = NewAudit(res)
    /\ pc' = "trim"
    /\ run' = 2
    /\ audit1' = audit
    /\ UNCHANGED appVars

Next == Trim \/ ParseDates \/ NormalizeEmails \/ Deduplicate \/ Impute \/ CleanAgain

Spec == Init /\ [][Next]_vars

-----------------------------------------------------------------------------
(* clean_dataframe and build_audit_summary as the web application calls them *)

\* clean_dataframe(d): the returned pair (df, audit)
clean_dataframe(d) ==
    LET a0 == NewAudit(d)
        d1 == [j \in 1..Len(d) |-> TrimCol(d[j])]
        a1 == [a0 EXCEPT !.column_changes =
                  [nm \in DOMAIN @ |-> TrimChanges(Column(d, nm), @[nm])]]
        d2 == [j \in 1..Len(d) |-> ParseCol(d1[j])]
        a2 == [a1 EXCEPT !.column_changes =
                  [nm \in DOMAIN @ |-> ParseChanges(Column(d1, nm), @[nm])]]
        d3 == [j \in 1..Len(d) |-> EmailCol(d2[j])]
        a3 == [a2 EXCEPT !.column_changes =
                  [nm \in DOMAIN @ |-> EmailChanges(Column(d2, nm), @[nm])]]
        d4 == Loc(d3, KeepMask(d3))
        a4 == DedupAudit(a3, NRows(d3), NRows(d4))
        d5 == [j \in 1..Len(d) |-> ImputeCol(d4[j])]
        a5 == [a4 EXCEPT !.column_changes =
                            [nm \in DOMAIN @ |-> ImputeChanges(Column(d4, nm), @[nm])],
                         !.rows_after = NRows(d4)]
    IN [cleaned |-> d5, audit |-> a5]

\* lines 88-102
build_audit_summary(a) ==
    [rows_before        |-> a.rows_before,
     rows_after         |-> a.rows_after,
     duplicates_removed |-> a.duplicates_removed,
     columns            |-> a.columns,
     column_changes     |-> [nm \in DOMAIN a.column_changes |->
                                [k \in DOMAIN a.column_changes[nm] |->
                                    a.column_changes[nm][k]]],
     issues             |-> a.issues]

\* the decimal digits of a natural number
RECURSIVE DecimalText(_)
DecimalText(n) ==
    IF n < 10 THEN <<DIGITS[n + 1]>>
    ELSE DecimalText(n \div 10) \o <<DIGITS[(n % 10) + 1]>>

\* one field of DataFrame.to_csv: a missing value is the empty field, a number
\* is written with one decimal, a timestamp as the digits of its instant
CsvField(c) ==
    CASE c.k = "str" -> c.s
      [] c.k = "num" -> DecimalText(c.n \div 2) \o <<".">>
                           \o (IF c.n % 2 = 0 THEN <<"0">> ELSE <<"5">>)
      [] c.k = "ts"  -> DecimalText(c.n)
      [] OTHER       -> <<>>

\* DataFrame.to_csv(index=False): the header line and one line per row
ToCsv(d) ==
    [header |-> [j \in 1..Len(d) |-> d[j].name],
     lines  |-> [i \in 1..NRows(d) |-> [j \in 1..Len(d) |-> CsvField(d[j].vals[i])]]]

-----------------------------------------------------------------------------
(* app.py: the handlers of /upload, /download/csv and /download/report *)

MaxUploadRows == 2

N_csv == <<"a", ".", "c", "s", "v">>
N_txt == <<"a", ".", "t", "x", "t">>
N_CSV == <<"a", ".", "C", "S", "V">>

\* the data frames pd.read_csv returns for the uploaded files of the model
UploadSchema ==
    << ColSpec(N_email, "object", {Str(T_MailUp), Str(T_Bad)}) >>

UploadFrames == UNION {Frames(UploadSchema, n) : n \in 0..MaxUploadRows}

\* POST /upload: without a file part; with a file part, a filename and a
\* content that pd.read_csv reads or not
UploadRequests ==
    {[route |-> "/upload", has_file |-> FALSE, filename |-> <<>>, readable |-> FALSE,
      frame |-> <<>>]}
    \cup {[route |-> "/upload", has_file |-> TRUE, filename |-> f, readable |-> FALSE,
           frame |-> <<>>] : f \in {<<>>, N_csv, N_txt, N_CSV}}
    \cup {[route |-> "/upload", has_file |-> TRUE, filename |-> f, readable |-> TRUE,
           frame |-> d] : f \in {<<>>, N_csv, N_txt}, d \in UploadFrames}

GetRequest(route) ==
    [route |-> route, has_file |-> FALSE, filename |-> <<>>, readable |-> FALSE,
     frame |-> <<>>]

\* str.endswith
EndsWith(s, suffix) ==
    /\ Len(s) >= Len(suffix)
    /\ SubSeq(s, Len(s) - Len(suffix) + 1, Len(s)) = suffix

\* the checks of lines 128-136 with the extension tested before the empty name
Rejection_ExtensionFirst(rq) ==
    IF ~rq.has_file THEN "No file uploaded"
    ELSE IF ~EndsWith(rq.filename, <<".", "c", "s", "v">>) THEN "Please upload a CSV file"
    ELSE IF rq.filename = <<>> THEN "No file selected"
    ELSE ""

\* lines 128-136: the error of the first check that fails, "" when none does
Rejection(rq) ==
    IF ~rq.has_file THEN "No file uploaded"
    ELSE IF rq.filename = <<>> THEN "No file selected"
    ELSE IF ~EndsWith(rq.filename, <<".", "c", "s", "v">>) THEN "Please upload a CSV file"
    ELSE ""

\* jsonify({'error': ...}), status
ErrorResponse(status, error) ==
    [status |-> status, error |-> error, attachment |-> "", cleaner_ran |-> FALSE,
     body |-> <<>>]

\* send_file(..., as_attachment=True, download_name=name)
FileResponse(name, body) ==
    [status |-> 200, error |-> "", attachment |-> name, cleaner_ran |-> FALSE,
     body |-> body]

\* line 148 as session.setdefault('summary', summary): a stored summary stays
StoreResults_SummaryOnce(s, csv, summary) ==
    IF "summary" \in DOMAIN s THEN Put(s, "cleaned_data", csv)
    ELSE Put(Put(s, "cleaned_data", csv), "summary", summary)

\* line 147 alone: the summary is not stored
StoreResults_NoSummary(s, csv, summary) == Put(s, "cleaned_data", csv)

\* lines 146-147
StoreResults(s, csv, summary) == Put(Put(s, "cleaned_data", csv), "summary", summary)

\* lines 126-179
Upload ==
    \E rq \in UploadRequests :
        /\ request' = rq
        /\ IF Rejection(rq) # ""
           THEN /\ response' = ErrorResponse(400, Rejection(rq))
                /\ UNCHANGED <<session, uploaded>>
           ELSE IF ~rq.readable
           THEN /\ response' = ErrorResponse(500, "Error processing file")
                /\ UNCHANGED <<session, uploaded>>
           ELSE LET r == clean_dataframe(rq.frame)
                    summary == build_audit_summary(r.audit)
                IN  /\ session' = StoreResults(session, ToCsv(r.cleaned), summary)
                    /\ response' = [status |-> 200, error |-> "", attachment |-> "",
                                    cleaner_ran |-> TRUE, body |-> summary]
                    /\ uploaded' = TRUE
        /\ UNCHANGED <<cleanerVars, heap>>

\* lines 204-221: the lines of the report that depend on the summary; a change
\* whose value is 0 is left out
Report(summary) ==
    [rows_before        |-> summary.rows_before,
     rows_after         |-> summary.rows_after,
     columns            |-> Len(summary.columns),
     duplicates_removed |-> summary.duplicates_removed,
     changes            |-> [nm \in DOMAIN summary.column_changes |->
                                LET m == summary.column_changes[nm] IN
                                [k \in {k \in DOMAIN m :
                                           k = "imputation_strategy" \/ m[k] # 0} |-> m[k]]]]

\* lines 181-195
DownloadCsv ==
    /\ request' = GetRequest("/download/csv")
    /\ response' = IF "cleaned_data" \notin DOMAIN session
                   THEN ErrorResponse(400, "No cleaned data available")
                   ELSE FileResponse("cleaned.csv", session["cleaned_data"])
    /\ UNCHANGED <<session, uploaded, cleanerVars, heap>>

\* lines 197-232
DownloadReport ==
    /\ request' = GetRequest("/download/report")
    /\ response' = IF "summary" \notin DOMAIN session
                   THEN ErrorResponse(400, "No report data available")
                   ELSE FileResponse("report.md", Report(session["summary"]))
    /\ UNCHANGED <<session, uploaded, cleanerVars, heap>>

\* a client's session before its first request; clean_dataframe is not running
InitApp ==
    /\ session = NoSession
    /\ request = NoRequest
    /\ response = NoResponse
    /\ uploaded = FALSE
    /\ heap = NoHeap
    /\ input = <<>>
    /\ df = <<>>
    /\ res = <<>>
    /\ mask = <<>>
    /\ audit = NewAudit(<<>>)
    /\ pc = "app"
    /\ run = 0
    /\ audit1 = NewAudit(<<>>)

NextApp == Upload \/ DownloadCsv \/ DownloadReport

SpecApp == InitApp /\ [][NextApp]_vars

-----------------------------------------------------------------------------
(* Properties of clean_dataframe *)

Cols(d) == 1..Len(d)

Rows(d) == 1..NRows(d)

Rect(d, n) == \A j \in Cols(d) : Len(d[j].vals) = n

Keys(a, name) == DOMAIN a.column_changes[name]

HasNull(c) == \E i \in 1..Len(c.vals) : IsNa(c.vals[i])

AllNull(c) == \A i \in 1..Len(c.vals) : IsNa(c.vals[i])

\* C1: in the returned audit rows_after = rows_before - duplicates_removed,
\* rows_before being the row count at entry and rows_after that of the
\* returned data frame; stages 1-3 and the imputation keep the row count, only
\* the de-duplication changes it.
C1_RowBalance ==
    /\ audit.rows_before = NRows(input)
    /\ Rect(df, NRows(input))
    /\ pc \in {"impute", "done"} =>
          Rect(res, audit.rows_before - audit.duplicates_removed)
    /\ pc = "done" =>
          /\ audit.rows_after = NRows(res)
          /\ audit.rows_after = audit.rows_before - audit.duplicates_removed

\* C1 witness: a finished call that removed a duplicate and imputed a value
C1_Witness ==
    /\ pc = "done"
    /\ audit.duplicates_removed > 0
    /\ \E nm \in DOMAIN audit.column_changes : "imputed_missing" \in Keys(audit, nm)
    /\ \E j \in Cols(df) : IsObject(df[j]) /\ HasNull(df[j])

\* C2 as claimed: the returned data frame has no null value in any column.
C2_NoNullAtAll ==
    pc = "done" => \A j \in Cols(res) : ~HasNull(res[j])

\* C2 amended: the returned data frame has no null value in any column,
\* except in a datetime column all of whose cells are null.
C2_NoNullButAllNullDatetime ==
    pc = "done" =>
        \A j \in Cols(res) : HasNull(res[j]) => IsDatetime(res[j]) /\ AllNull(res[j])

\* C2 witness: a column of the returned frame that was entirely null before the
\* imputation and has no null left
C2_Witness ==
    /\ pc = "done"
    /\ NRows(res) > 0
    /\ \E j \in Cols(res) : AllNull(df[j]) /\ ~HasNull(res[j]) /\ IsNumeric(res[j])
    /\ \E j \in Cols(res) : AllNull(df[j]) /\ ~HasNull(res[j]) /\ IsObject(res[j])

\* the first call imputed at least one value
FirstImputed == \E nm \in DOMAIN audit1.column_changes : "imputed_missing" \in Keys(audit1, nm)

\* C3 as claimed: cleaning the result of a cleaning removes no duplicate, keeps
\* the row count, and leaves the change map of every column empty.
C3_Idempotent ==
    (run = 2 /\ pc = "done") =>
        /\ audit.duplicates_removed = 0
        /\ audit.rows_after = audit.rows_before
        /\ \A nm \in DOMAIN audit.column_changes : Keys(audit, nm) = {}

\* C3 amended: cleaning the result of a cleaning removes no duplicate and keeps
\* the row count unless the first cleaning imputed a value; the change map of
\* a column holds no key other than parsed_to_datetime and
\* emails_valid_before/after, except imputed_missing and imputation_strategy
\* for a datetime column that is entirely null.
C3_SecondRun ==
    (run = 2 /\ pc = "done") =>
        /\ FirstImputed \/ (audit.duplicates_removed = 0
                            /\ audit.rows_after = audit.rows_before)
        /\ \A j \in Cols(input) :
              LET K == Keys(audit, input[j].name)
                      \ {"parsed_to_datetime", "emails_valid_before", "emails_valid_after"}
              IN  \/ K = {}
                  \/ /\ K = {"imputed_missing", "imputation_strategy"}
                     /\ IsDatetime(input[j])
                     /\ AllNull(input[j])
                     /\ NRows(input) > 0

\* C3 witness: a second cleaning, of a result in which the first cleaning had
\* stripped text, found empty text and imputed, that reports nothing but the
\* validity counts of an email column
C3_Witness ==
    /\ run = 2
    /\ pc = "done"
    /\ NRows(input) > 1
    /\ \E nm \in DOMAIN audit1.column_changes :
          {"new_nulls_from_empty_strings", "imputed_missing"} \subseteq Keys(audit1, nm)
    /\ \E nm \in DOMAIN audit.column_changes :
          Keys(audit, nm) = {"emails_valid_before", "emails_valid_after"}
    /\ audit.duplicates_removed = 0

\* a second cleaning that removes a duplicate the first cleaning's imputation made
C3_DuplicateAfterImpute ==
    run = 2 /\ pc = "done" /\ audit.duplicates_removed > 0

\* rows h and i of d are duplicates: equal in every column, text of an object
\* column compared lower-cased and trimmed, null equal to null
SameKey(d, h, i) ==
    \A j \in Cols(d) :
        LET a == d[j].vals[h]
            b == d[j].vals[i]
        IN  IF IsObject(d[j]) /\ a.k = "str" /\ b.k = "str"
            THEN Strip(Lower(a.s)) = Strip(Lower(b.s))
            ELSE a = b

Kept == {i \in Rows(df) : mask[i]}

\* the k-th kept row, in the order of df
NthKept(k) == CHOOSE i \in Kept : Cardinality({h \in Kept : h <= i}) = k

\* C4: the de-duplication keeps of each group of duplicate rows exactly the
\* first in input order, and the kept rows stand in the result in their input
\* order.
C4_KeepFirstInOrder ==
    pc = "impute" =>
        /\ \A i \in Rows(df) : mask[i] <=> (\A h \in 1..(i - 1) : ~SameKey(df, h, i))
        /\ Rect(res, Cardinality(Kept))
        /\ \A k \in Rows(res) : Row(res, k) = Row(df, NthKept(k))

\* C4 witness: three rows, the second a duplicate of the first with another
\* spelling, the third no duplicate: the first and the third are kept
C4_Witness ==
    /\ pc = "impute"
    /\ mask = <<TRUE, FALSE, TRUE>>
    /\ Row(df, 1) # Row(df, 2)
    /\ SameKey(df, 1, 2)

\* the example of the specification: name "John", " John " and email "A@X.COM",
\* "a@x.com"
ExampleJohn ==
    << [name |-> N_name, dtype |-> "object", vals |-> <<Str(T_John), Str(T_JohnPad)>>],
       [name |-> N_email, dtype |-> "object", vals |-> <<Str(T_MailUp), Str(T_MailLow)>>] >>

\* C5: after the de-duplication no two kept rows are duplicates (equal in every
\* column, text compared lower-cased and trimmed, null equal to null), every
\* dropped row is a duplicate of a kept row before it, and the two rows of the
\* example collapse to one with duplicates_removed = 1.
C5_DuplicateKey ==
    /\ pc = "impute" =>
          /\ \A k \in Rows(res) : \A h \in 1..(k - 1) : ~SameKey(res, h, k)
          /\ \A i \in Rows(df) :
                ~mask[i] => \E h \in 1..(i - 1) : mask[h] /\ SameKey(df, h, i)
          /\ audit.duplicates_removed = Cardinality(Rows(df) \ Kept)
    /\ (pc = "done" /\ run = 1 /\ input = ExampleJohn) =>
          audit.duplicates_removed = 1 /\ audit.rows_after = 1

\* C5 witness: the example, cleaned
C5_Witness ==
    /\ pc = "done" /\ run = 1 /\ input = ExampleJohn /\ audit.duplicates_removed = 1

\* the text of cell c stripped, or null when c is null or its text is blank
TrimmedOrNull(c) ==
    IF IsNa(c) \/ Strip(c.s) = <<>> THEN NA ELSE Str(Strip(c.s))

\* C6: after stage 1 every cell of an object column is null if it was null or
\* blank on input, and is the stripped input text otherwise; a null cell stays
\* null.
C6_TrimKeepsNull ==
    pc = "dates" =>
        \A j \in Cols(input) :
            IsObject(input[j]) =>
                \A i \in Rows(input) : df[j].vals[i] = TrimmedOrNull(input[j].vals[i])

Parses(vals) == {i \in 1..Len(vals) : ~IsNa(ToDatetime(vals[i]))}

\* C8: for a column with a date name, if a value parses, each cell becomes its
\* timestamp or, failing to parse, null, and parsed_to_datetime is the number
\* of values parsed; if none parses the column is unchanged and no key is set.
C8_DateColumnParsed ==
    [][pc = "dates" =>
          \A j \in Cols(df) :
              IsDateName(df[j].name) =>
                  IF Parses(df[j].vals) # {}
                  THEN /\ \A i \in Rows(df) :
                            df'[j].vals[i] = IF i \in Parses(df[j].vals)
                                             THEN ToDatetime(df[j].vals[i]) ELSE NA
                       /\ Len(df'[j].vals) = NRows(df)
                       /\ "parsed_to_datetime" \in Keys(audit', df[j].name)
                       /\ audit'.column_changes[df[j].name]["parsed_to_datetime"]
                             = Cardinality(Parses(df[j].vals))
                  ELSE /\ df'[j] = df[j]
                       /\ "parsed_to_datetime" \notin Keys(audit', df[j].name)]_vars

\* C8 witness: the example: two dates around a text that is no date give two
\* timestamps around a null, parsed_to_datetime = 2
C8_Witness ==
    /\ pc = "emails"
    /\ \E j \in Cols(df) :
          /\ input[j].vals = <<Str(T_Jan), Str(T_NotADate), Str(T_Feb)>>
          /\ df[j].vals = <<ToDatetime(Str(T_Jan)), NA, ToDatetime(Str(T_Feb))>>
          /\ df[j].vals[1].k = "ts"
          /\ audit.column_changes[df[j].name]["parsed_to_datetime"] = 2

\* the cells of vals that are non-null and match the email pattern
Matching(vals) == {i \in 1..Len(vals) : ~IsNa(vals[i]) /\ EMAIL_RE(vals[i].s)}

\* C9: stage 3 records for every object column with "email" in its name both
\* emails_valid_before, the number of values matching before the lower-casing,
\* and emails_valid_after, the number matching after it, also when both are 0;
\* a column without "email" in its name gets neither key.
C9_EmailCounts ==
    [][pc = "emails" =>
          \A j \in Cols(df) :
              LET nm == df[j].name IN
              IF IsObject(df[j]) /\ IsEmailName(nm)
              THEN /\ {"emails_valid_before", "emails_valid_after"} \subseteq Keys(audit', nm)
                   /\ audit'.column_changes[nm]["emails_valid_before"]
                         = Cardinality(Matching(df[j].vals))
                   /\ audit'.column_changes[nm]["emails_valid_after"]
                         = Cardinality(Matching(df'[j].vals))
              ELSE ~IsEmailName(nm) =>
                      Keys(audit', nm) \cap {"emails_valid_before", "emails_valid_after"} = {}
      ]_vars

\* C9 witness: an email column with rows and no valid address, both counts 0
C9_Witness ==
    /\ pc = "dedup"
    /\ NRows(df) > 0
    /\ \E j \in Cols(df) :
          /\ {"emails_valid_before", "emails_valid_after"} \subseteq Keys(audit, df[j].name)
          /\ audit.column_changes[df[j].name]["emails_valid_before"] = 0
          /\ audit.column_changes[df[j].name]["emails_valid_after"] = 0

\* C10: stage 3 lower-cases every non-null value of an object column with
\* "email" in its name, valid address or not, changes nothing else, and
\* leaves a null cell null.
C10_LowerUnconditional ==
    [][pc = "emails" =>
          \A j \in Cols(df) :
              (IsObject(df[j]) /\ IsEmailName(df[j].name)) =>
                  /\ df'[j].name = df[j].name
                  /\ df'[j].dtype = df[j].dtype
                  /\ Len(df'[j].vals) = NRows(df)
                  /\ \A i \in Rows(df) :
                        df'[j].vals[i] = IF IsNa(df[j].vals[i]) THEN NA
                                         ELSE Str(Lower(df[j].vals[i].s))]_vars

\* C10 witness: after stage 3 an email column holds the invalid "Bad"
\* lower-cased and a null cell
C10_Witness ==
    /\ pc = "dedup"
    /\ \E j \in Cols(df) :
          /\ IsEmailName(df[j].name)
          /\ \E i \in Rows(df) :
                input[j].vals[i] = Str(T_Bad) /\ df[j].vals[i] = Str(Lower(T_Bad))
          /\ \E i \in Rows(df) : IsNa(df[j].vals[i])

-----------------------------------------------------------------------------
(* Properties of the imputation *)

\* the numbers of the non-null cells of vals, in row order
RECURSIVE Numbers(_)
Numbers(vals) ==
    IF vals = <<>> THEN <<>>
    ELSE (IF IsNa(Head(vals)) THEN <<>> ELSE <<Head(vals).n>>) \o Numbers(Tail(vals))

\* x put into the ascending sequence s
RECURSIVE Insert(_, _)
Insert(x, s) ==
    IF s = <<>> THEN <<x>>
    ELSE IF x <= Head(s) THEN <<x>> \o s
    ELSE <<Head(s)>> \o Insert(x, Tail(s))

RECURSIVE Sorted(_)
Sorted(s) == IF s = <<>> THEN <<>> ELSE Insert(Head(s), Sorted(Tail(s)))

\* the median of a non-empty ascending sequence
MiddleOf(s) ==
    IF Len(s) % 2 = 1 THEN s[(Len(s) + 1) \div 2]
    ELSE (s[Len(s) \div 2] + s[Len(s) \div 2 + 1]) \div 2

\* vals with every null cell replaced by v
Filled(vals, v) == [i \in 1..Len(vals) |-> IF IsNa(vals[i]) THEN v ELSE vals[i]]

\* the non-null values of vals that no other value outnumbers
MostFrequent(vals) ==
    LET V == {vals[i] : i \in {h \in 1..Len(vals) : ~IsNa(vals[h])}}
        N(v) == Cardinality({i \in 1..Len(vals) : vals[i] = v})
    IN {v \in V : \A w \in V : N(w) <= N(v)}

\* the audit a' holds for column nm the number n of cells filled and strategy s
Imputed(a, nm, n, s) ==
    /\ {"imputed_missing", "imputation_strategy"} \subseteq DOMAIN a.column_changes[nm]
    /\ a.column_changes[nm]["imputed_missing"] = n
    /\ a.column_changes[nm]["imputation_strategy"] = s

\* C11: stage 5 fills the nulls of a numeric column that has one with the
\* median of its non-null values among the kept rows, 0.0 when it has none,
\* records imputed_missing as the number of nulls filled and a strategy that
\* embeds the value.
C11_NumericMedian ==
    [][pc = "impute" =>
          \A j \in Cols(res) :
              (IsNumeric(res[j]) /\ HasNull(res[j])) =>
                  LET v == IF AllNull(res[j]) THEN Num(0)
                           ELSE Num(MiddleOf(Sorted(Numbers(res[j].vals))))
                  IN  /\ res'[j].vals = Filled(res[j].vals, v)
                      /\ Imputed(audit', res[j].name, NullCount(res[j].vals),
                                 [kind |-> "median", val |-> v])]_vars

\* C11 witness: the example: [10, 20, null] is filled with 15.0
C11_Witness ==
    /\ pc = "done"
    /\ \E j \in Cols(res) :
          /\ df[j].vals = <<Num(20), Num(40), NA>>
          /\ res[j].vals = <<Num(20), Num(40), Num(30)>>
          /\ Imputed(audit, res[j].name, 1, [kind |-> "median", val |-> Num(30)])

IsTextual(c) == ~IsNumeric(c) /\ ~IsDatetime(c)

T_Unknown == <<"U", "n", "k", "n", "o", "w", "n">>

\* C12: stage 5 fills the nulls of a textual column that has one with a most
\* frequent non-null value of the column among the kept rows, with "Unknown"
\* when it has none, and records imputed_missing and a strategy that embeds
\* the value.
C12_TextMode ==
    [][pc = "impute" =>
          \A j \in Cols(res) :
              (IsTextual(res[j]) /\ HasNull(res[j])) =>
                  \E v \in (IF AllNull(res[j]) THEN {Str(T_Unknown)}
                            ELSE MostFrequent(res[j].vals)) :
                      /\ res'[j].vals = Filled(res[j].vals, v)
                      /\ Imputed(audit', res[j].name, NullCount(res[j].vals),
                                 [kind |-> "mode", val |-> v])]_vars

\* C12 witness: a textual column with "john" twice, "Bad" once and one null,
\* filled with "john"
C12_Witness ==
    /\ pc = "done"
    /\ \E j \in Cols(res) :
          /\ IsObject(res[j])
          /\ Cardinality({i \in Rows(res) : res[j].vals[i] = Str(T_john)}) = 3
          /\ Cardinality({i \in Rows(res) : res[j].vals[i] = Str(T_Bad)}) = 1
          /\ Imputed(audit, res[j].name, 1, [kind |-> "mode", val |-> Str(T_john)])

\* C13: stage 5 fills the nulls of a datetime column that has one with its most
\* frequent non-null timestamp, the earliest of them when several are tied,
\* leaves them null when the column is entirely null, and records
\* imputed_missing and the strategy "mode (datetime)".
C13_DatetimeMode ==
    [][pc = "impute" =>
          \A j \in Cols(res) :
              (IsDatetime(res[j]) /\ HasNull(res[j])) =>
                  LET M == MostFrequent(res[j].vals)
                      v == IF AllNull(res[j]) THEN NA
                           ELSE CHOOSE x \in M : \A y \in M : x.n <= y.n
                  IN  /\ res'[j].vals = Filled(res[j].vals, v)
                      /\ Imputed(audit', res[j].name, NullCount(res[j].vals),
                                 [kind |-> "mode (datetime)", val |-> NA])]_vars

\* C13 witness: a datetime column with the later instant first, the earlier
\* second, each once, and a null, filled with the earlier
C13_Witness ==
    /\ pc = "done"
    /\ \E j \in Cols(res) :
          /\ IsDatetime(res[j])
          /\ df[j].vals = <<Ts(2), Ts(1), NA>>
          /\ res[j].vals = <<Ts(2), Ts(1), Ts(1)>>
          /\ Imputed(audit, res[j].name, 1, [kind |-> "mode (datetime)", val |-> NA])

ImputeKeys == {"imputed_missing", "imputation_strategy"}

\* C14: stage 5 gives a column imputed_missing and imputation_strategy if and
\* only if it has a null after the de-duplication; imputed_missing is then at
\* least 1; a column without a null is unchanged and gets neither key.
C14_ImputeKeysIffNull ==
    [][pc = "impute" =>
          \A j \in Cols(res) :
              IF HasNull(res[j])
              THEN /\ ImputeKeys \subseteq Keys(audit', res[j].name)
                   /\ audit'.column_changes[res[j].name]["imputed_missing"] >= 1
              ELSE /\ res'[j] = res[j]
                   /\ ImputeKeys \cap Keys(audit', res[j].name) = {}]_vars

\* C14 witness: a returned frame with a column that was imputed and a column
\* that had no null
C14_Witness ==
    /\ pc = "done"
    /\ \E j \in Cols(res) : ImputeKeys \subseteq Keys(audit, res[j].name)
    /\ \E j \in Cols(res) : ImputeKeys \cap Keys(audit, res[j].name) = {}
                            /\ NRows(res) > 0

-----------------------------------------------------------------------------
(* Properties of the audit *)

ColumnNames(d) == {d[j].name : j \in Cols(d)}

\* C15: at every point of the pipeline the keys of column_changes are exactly
\* the names of the input columns.
C15_ColumnKeys == DOMAIN audit.column_changes = ColumnNames(input)

\* C15 witness: a finished call on two columns, of which one is not an object
\* column, with a change recorded for each
C15_Witness ==
    /\ pc = "done"
    /\ Len(input) = 2
    /\ \E j \in Cols(input) : ~IsObject(input[j])
    /\ \A nm \in ColumnNames(input) : Keys(audit, nm) # {}

\* C16: stage 1 records new_nulls_from_empty_strings for an object column if
\* and only if its null count after the stage differs from the one before,
\* and the value is the difference after - before.
C16_NewNullsIsDelta ==
    [][pc = "trim" =>
          \A j \in Cols(df) :
              IsObject(df[j]) =>
                  LET delta == NullCount(df'[j].vals) - NullCount(df[j].vals)
                      nm == df[j].name
                  IN  /\ ("new_nulls_from_empty_strings" \in Keys(audit', nm)) <=> (delta # 0)
                      /\ delta # 0 =>
                            audit'.column_changes[nm]["new_nulls_from_empty_strings"] = delta
      ]_vars

\* C16 witness: after stage 1, a column in which two blank texts became null
C16_Witness ==
    /\ pc = "dates"
    /\ \E j \in Cols(df) :
          /\ "new_nulls_from_empty_strings" \in Keys(audit, df[j].name)
          /\ audit.column_changes[df[j].name]["new_nulls_from_empty_strings"] = 2
          /\ NullCount(input[j].vals) = 0
          /\ NullCount(df[j].vals) = 2

\* C17: stage 4 sets duplicates_removed to the number of rows it dropped, and
\* writes nothing when it dropped none.
C17_DuplicatesRemoved ==
    [][pc = "dedup" =>
          LET dropped == NRows(df) - NRows(res') IN
              /\ audit'.duplicates_removed = dropped
              /\ dropped = 0 => audit' = audit
              /\ audit'.duplicates_removed # audit.duplicates_removed => dropped > 0]_vars

\* C17 witness: after stage 4, two of four rows dropped
C17_Witness ==
    /\ pc = "impute"
    /\ NRows(df) = 4
    /\ NRows(res) = 2
    /\ audit.duplicates_removed = 2

EmailKeys == {"emails_valid_before", "emails_valid_after"}

\* C18 as claimed: for a frame without rows the call ends with rows_before =
\* rows_after = 0, duplicates_removed = 0 and no key in any change map.
C18_EmptyNoEntries ==
    (pc = "done" /\ NRows(input) = 0) =>
        /\ audit.rows_before = 0
        /\ audit.rows_after = 0
        /\ audit.duplicates_removed = 0
        /\ \A nm \in ColumnNames(input) : Keys(audit, nm) = {}

\* C18 amended: for a frame without rows the call ends with rows_before =
\* rows_after = 0, duplicates_removed = 0 and no key in any change map, except
\* emails_valid_before = emails_valid_after = 0 for every object column with
\* "email" in its name.
C18_EmptyButEmailCounts ==
    (pc = "done" /\ NRows(input) = 0) =>
        /\ audit.rows_before = 0
        /\ audit.rows_after = 0
        /\ audit.duplicates_removed = 0
        /\ NRows(res) = 0
        /\ \A j \in Cols(input) :
              LET nm == input[j].name IN
              IF IsObject(input[j]) /\ IsEmailName(nm)
              THEN /\ Keys(audit, nm) = EmailKeys
                   /\ audit.column_changes[nm]["emails_valid_before"] = 0
                   /\ audit.column_changes[nm]["emails_valid_after"] = 0
              ELSE Keys(audit, nm) = {}

\* C18 witness: a finished call on a frame without rows that has an email
\* column and a column with a date name
C18_Witness ==
    /\ pc = "done"
    /\ run = 1
    /\ NRows(input) = 0
    /\ \E j \in Cols(input) : IsEmailName(input[j].name) /\ IsDateName(input[j].name)

-----------------------------------------------------------------------------
(* C19: GET /download/csv and GET /download/report answer 400 with 'No cleaned
   data available' and 'No report data available' in a session in which no
   upload has succeeded yet, and 200 with the attachment cleaned.csv and
   report.md in a session after an upload has succeeded. *)
C19_Downloads ==
    /\ request.route = "/download/csv" =>
          IF uploaded
          THEN response.status = 200 /\ response.attachment = "cleaned.csv"
          ELSE response.status = 400 /\ response.error = "No cleaned data available"
                  /\ response.attachment = ""
    /\ request.route = "/download/report" =>
          IF uploaded
          THEN response.status = 200 /\ response.attachment = "report.md"
          ELSE response.status = 400 /\ response.error = "No report data available"
                  /\ response.attachment = ""

C19_Witness ==
    /\ request.route = "/download/report"
    /\ uploaded
    /\ response.status = 200
    /\ response.attachment = "report.md"
    /\ response.body.rows_before = 2
    /\ response.body.duplicates_removed = 1

(* C20: POST /upload answers 400, checking in this order, with 'No file
   uploaded' when the request has no file part, 'No file selected' when the
   filename is empty and 'Please upload a CSV file' when the filename does not
   end in '.csv'; in each case the cleaner is not run and the session keeps
   the cleaned data and the summary it had. *)
Rejected(error) ==
    /\ response'.status = 400
    /\ response'.error = error
    /\ response'.cleaner_ran = FALSE
    /\ session' = session

C20_UploadRejections ==
    [][request'.route = "/upload" =>
          /\ ~request'.has_file => Rejected("No file uploaded")
          /\ request'.has_file /\ request'.filename = <<>> => Rejected("No file selected")
          /\ request'.has_file /\ request'.filename # <<>>
                /\ ~EndsWith(request'.filename, <<".", "c", "s", "v">>)
                => Rejected("Please upload a CSV file")]_vars

C20_Witness ==
    /\ request.route = "/upload"
    /\ request.has_file
    /\ request.filename = N_CSV
    /\ response.status = 400
    /\ response.error = "Please upload a CSV file"
    /\ uploaded
    /\ "summary" \in DOMAIN session
    /\ "cleaned_data" \in DOMAIN session

-----------------------------------------------------------------------------
(* The narrative consumers of the summary: ai_explain of app.py and
   AIStoryGenerator of ai_story_generator.py.  A narrative is the sequence of
   the lines that "\n".join receives; a line is its template text with the
   column name, the numbers and the strategy formatted into it. *)

NoStrategy == [kind |-> "", val |-> NA]

Line(text) == [text |-> text, col |-> <<>>, n |-> <<>>, strategy |-> NoStrategy]

NumLine(text, n) == [text |-> text, col |-> <<>>, n |-> n, strategy |-> NoStrategy]

ColLine(text, col, n) == [text |-> text, col |-> col, n |-> n, strategy |-> NoStrategy]

\* the lines appended under an if
Opt(cond, lines) == IF cond THEN lines ELSE <<>>

\* list[:n]
Take(s, n) == SubSeq(s, 1, IF Len(s) < n THEN Len(s) ELSE n)

RECURSIVE Concat(_)
Concat(ss) == IF ss = <<>> THEN <<>> ELSE Head(ss) \o Concat(Tail(ss))

RECURSIVE SumSeq(_)
SumSeq(s) == IF s = <<>> THEN 0 ELSE Head(s) + SumSeq(Tail(s))

Least(a, b) == IF a < b THEN a ELSE b

Greatest(a, b) == IF a < b THEN b ELSE a

\* the value of imputation_strategy is a str, the value of every other change
\* kind an int
IsTextKey(k) == k = "imputation_strategy"

\* dict.get(key, default)
Get(info, key, default) == IF key \in DOMAIN info THEN info[key] ELSE default

\* v not in (None, 0, "", [], {}, False); a strategy text is never empty
Counted(info, k) == IsTextKey(k) \/ info[k] # 0

\* the change maps in the order of column_changes.items()
Infos(audit_data) == [j \in 1..Len(audit_data.columns) |-> audit_data.column_changes[audit_data.columns[j]]]

\* app.py lines 42-57, one column
SignificantChanges(col, info) ==
    Opt(Get(info, "imputed_missing", 0) > 0,
        <<ColLine("Imputed {} missing values", col, <<info["imputed_missing"]>>)>>)
    \o Opt(Get(info, "new_nulls_from_empty_strings", 0) > 0,
        <<ColLine("Converted {} empty strings to nulls", col,
                  <<info["new_nulls_from_empty_strings"]>>)>>)
    \o Opt(Get(info, "parsed_to_datetime", 0) > 0,
        <<ColLine("Parsed {} values as dates", col, <<info["parsed_to_datetime"]>>)>>)
    \o Opt(Get(info, "emails_valid_after", 0) > 0,
        <<ColLine("Normalized {} email addresses", col, <<info["emails_valid_after"]>>)>>)

\* lines 43-49 with an absent key taken for a change
DataQualityIssues_AbsentCounts(col, info) ==
    Opt(Get(info, "imputed_missing", 1) > 0, <<ColLine("Missing data in {}", col, <<>>)>>)
    \o Opt(Get(info, "new_nulls_from_empty_strings", 1) > 0,
           <<ColLine("Empty strings in {}", col, <<>>)>>)

DataQualityIssues(col, info) ==
    Opt(Get(info, "imputed_missing", 0) > 0, <<ColLine("Missing data in {}", col, <<>>)>>)
    \o Opt(Get(info, "new_nulls_from_empty_strings", 0) > 0,
           <<ColLine("Empty strings in {}", col, <<>>)>>)

ImprovementsMade(col, info) ==
    Opt(Get(info, "parsed_to_datetime", 0) > 0, <<ColLine("Date parsing in {}", col, <<>>)>>)
    \o Opt(Get(info, "emails_valid_after", 0) > 0,
           <<ColLine("Email normalization in {}", col, <<>>)>>)

\* app.py line 120: the text returned when the body raised
SummaryGenerationError == <<Line("Summary Generation Error")>>

\* app.py lines 20-120; audit[...] raises KeyError for an absent key
ai_explain(audit_data) ==
    IF ~({"rows_before", "rows_after", "columns", "column_changes"} \subseteq DOMAIN audit_data)
    THEN SummaryGenerationError
    ELSE
    LET rows_before == audit_data.rows_before
        rows_after == audit_data.rows_after
        duplicates_removed == Get(audit_data, "duplicates_removed", 0)
        columns == audit_data.columns
        infos == Infos(audit_data)
        total_changes ==
            SumSeq([j \in 1..Len(columns) |->
                       Cardinality({k \in DOMAIN infos[j] : Counted(infos[j], k)})])
        significant_changes ==
            Concat([j \in 1..Len(columns) |-> SignificantChanges(columns[j], infos[j])])
        data_quality_issues ==
            Concat([j \in 1..Len(columns) |-> DataQualityIssues(columns[j], infos[j])])
        improvements_made ==
            Concat([j \in 1..Len(columns) |-> ImprovementsMade(columns[j], infos[j])])
    IN  << Line("## Data Cleaning Overview"),
           Line("Your dataset has been successfully cleaned and optimized for analysis."),
           Line(""),
           Line("## Key Metrics"),
           NumLine("Dataset Size: {} -> {} rows ({} change)",
                   <<rows_before, rows_after, rows_after - rows_before>>),
           NumLine("Data Quality: {} improvements applied across {} columns",
                   <<total_changes, Len(columns)>>),
           NumLine("Duplicates: {} duplicate records removed", <<duplicates_removed>>),
           Line("") >>
        \o Opt(data_quality_issues # <<>>,
               <<Line("## Data Quality Issues Identified")>>
               \o Take(data_quality_issues, 5) \o <<Line("")>>)
        \o Opt(improvements_made # <<>>,
               <<Line("## Improvements Applied")>>
               \o Take(improvements_made, 5) \o <<Line("")>>)
        \o Opt(significant_changes # <<>>,
               <<Line("## Significant Changes")>>
               \o Take(significant_changes, 8) \o <<Line("")>>)
        \o <<Line("## Recommendations")>>
        \o Opt(duplicates_removed > 0, <<Line("Duplicate Prevention")>>)
        \o Opt(\E j \in 1..Len(columns) : Get(infos[j], "imputed_missing", 0) > 0,
               <<Line("Data Collection")>>)
        \o Opt(\E j \in 1..Len(columns) : Get(infos[j], "new_nulls_from_empty_strings", 0) > 0,
               <<Line("Input Validation")>>)
        \o << Line("Regular Monitoring"),
              Line("Documentation"),
              Line(""),
              Line("## Next Steps"),
              Line("Download the cleaned dataset for analysis"),
              Line("Review the detailed column-by-column report"),
              Line("Implement suggested data quality improvements"),
              Line("Consider setting up automated data validation") >>

\* ai_story_generator.py lines 345-377, the score times rows_before kept exact:
\* `v and v > 0` raises TypeError for a strategy text and a division by
\* rows_before = 0 raises ZeroDivisionError; either is caught and gives 75
calculate_quality_score(audit_data) ==
    LET rows_before == Get(audit_data, "rows_before", 1)
        rows_after == Get(audit_data, "rows_after", 0)
        duplicates_removed == Get(audit_data, "duplicates_removed", 0)
        data_loss == rows_before - rows_after - duplicates_removed
        infos == Infos(audit_data)
        raises ==
            \/ (data_loss > 0 \/ duplicates_removed > 0) /\ rows_before = 0
            \/ \E j \in 1..Len(infos) : \E k \in DOMAIN infos[j] : IsTextKey(k)
        total_improvements ==
            SumSeq([j \in 1..Len(infos) |->
                       Cardinality({k \in DOMAIN infos[j] : infos[j][k] > 0})])
        r == IF rows_before = 0 THEN 1 ELSE rows_before
        score == 100 * r
                 - (IF data_loss > 0 THEN Least(30 * r, data_loss * 100) ELSE 0)
                 + (IF duplicates_removed > 0 THEN Least(10 * r, duplicates_removed * 20) ELSE 0)
                 + (IF total_improvements > 0 THEN Least(15, total_improvements * 3) * r ELSE 0)
    IN  IF raises THEN 75 ELSE Greatest(0, Least(100, score \div r))

\* lines 379-393
MajorIssues(col, changes) ==
    Opt(Get(changes, "imputed_missing", 0) > 0, <<ColLine("Missing values in {}", col, <<>>)>>)
    \o Opt(Get(changes, "new_nulls_from_empty_strings", 0) > 0,
           <<ColLine("Empty strings in {}", col, <<>>)>>)
    \o Opt(Get(changes, "parsed_to_datetime", 0) > 0,
           <<ColLine("Date format issues in {}", col, <<>>)>>)

identify_major_issues(audit_data) ==
    Concat([j \in 1..Len(audit_data.columns) |-> MajorIssues(audit_data.columns[j], Infos(audit_data)[j])])

\* max(0, 100 - issues / total_records * 100) in tenths of a percent, as
\* :.1f prints it; `fallback` when total_records is 0 (ZeroDivisionError)
Percentage(issues, total_records, fallback) ==
    IF total_records = 0 THEN fallback
    ELSE LET p == 1000 * total_records - 1000 * issues
         IN  IF p <= 0 THEN 0 ELSE (2 * p + total_records) \div (2 * total_records)

\* lines 395-406
calculate_completeness(audit_data) ==
    Percentage(SumSeq([j \in 1..Len(audit_data.columns) |->
                          Get(Infos(audit_data)[j], "imputed_missing", 0)]),
               Get(audit_data, "rows_before", 1), 850)

\* lines 408-420
calculate_consistency(audit_data) ==
    Percentage(SumSeq([j \in 1..Len(audit_data.columns) |->
                          Get(Infos(audit_data)[j], "new_nulls_from_empty_strings", 0)
                          + Get(Infos(audit_data)[j], "parsed_to_datetime", 0)]),
               Get(audit_data, "rows_before", 1), 900)

\* lines 422-429
calculate_accuracy(audit_data) ==
    Percentage(Get(audit_data, "duplicates_removed", 0), Get(audit_data, "rows_before", 1), 950)

\* lines 108-178
generate_executive_story(rows_before, rows_after, duplicates_removed, quality_score, major_issues, columns) ==
    << Line("# Executive Data Quality Report"), Line(""),
       Line("## Executive Summary"), Line(""),
       Line(IF quality_score >= 80 THEN "Excellent Data Quality Achieved"
            ELSE IF quality_score >= 60 THEN "Significant Data Quality Improvements"
            ELSE "Data Quality Issues Identified"),
       Line(""),
       NumLine("quality score of {}%", <<quality_score>>),
       Line(""),
       Line("## Key Performance Indicators"), Line(""),
       NumLine("Dataset Integrity: {} -> {} records ({} change)",
               <<rows_before, rows_after, rows_after - rows_before>>),
       NumLine("Data Quality Score: {}%", <<quality_score>>),
       NumLine("Duplicate Elimination: {} redundant records removed", <<duplicates_removed>>),
       NumLine("Data Dimensions: {} columns analyzed", <<Len(columns)>>),
       Line(""),
       Line("## Business Impact"), Line("") >>
    \o Opt(duplicates_removed > 0,
           <<NumLine("Eliminated Data Redundancy: Removed {} duplicate records",
                     <<duplicates_removed>>), Line("")>>)
    \o Opt(major_issues # <<>>,
           <<Line("Data Quality Assurance"), Line("Inaccurate business intelligence"),
             Line("Misleading performance metrics"), Line("Poor decision-making"), Line("")>>)
    \o << Line("## Strategic Recommendations"), Line(""),
          Line("1. Implement Data Quality Monitoring"),
          Line("2. Enhance Data Collection Processes"),
          Line("3. Invest in Data Governance"),
          Line("4. Consider Advanced Analytics"),
          Line(""),
          Line("## Next Steps"), Line(""),
          Line("Review the detailed technical report"),
          Line("Download the cleaned dataset"),
          Line("Schedule follow-up data quality assessments"),
          Line("Consider implementing automated data quality monitoring tools") >>

\* lines 210-227, one column; any(changes.values()) is true for a non-zero
\* number and for a strategy text
TechnicalColumn(column, changes) ==
    Opt(\E k \in DOMAIN changes : Counted(changes, k),
        <<ColLine("### Column: {}", column, <<>>), Line("")>>
        \o Opt(Get(changes, "imputed_missing", 0) > 0,
               <<[text |-> "Missing Values: {} values imputed using {}", col |-> <<>>,
                  n |-> <<changes["imputed_missing"]>>,
                  strategy |-> Get(changes, "imputation_strategy",
                                   [kind |-> "statistical method", val |-> NA])]>>)
        \o Opt(Get(changes, "new_nulls_from_empty_strings", 0) > 0,
               <<NumLine("Empty String Conversion: {} empty strings converted to null values",
                         <<changes["new_nulls_from_empty_strings"]>>)>>)
        \o Opt(Get(changes, "parsed_to_datetime", 0) > 0,
               <<NumLine("Date Parsing: {} values parsed as datetime objects",
                         <<changes["parsed_to_datetime"]>>)>>)
        \o Opt(Get(changes, "emails_valid_after", 0) > 0,
               <<NumLine("Email Normalization: {} email addresses normalized",
                         <<changes["emails_valid_after"]>>)>>)
        \o <<Line("")>>)

\* lines 180-247
generate_technical_story(audit_data, quality_score) ==
    << Line("# Technical Data Quality Analysis Report"), Line(""),
       Line("## Technical Overview"), Line(""),
       NumLine("The dataset achieved a quality score of {}%", <<quality_score>>),
       Line(""),
       Line("## Methodology"), Line(""),
       Line("### Data Quality Assessment Framework"),
       Line("Completeness"), Line("Consistency"), Line("Accuracy"), Line("Uniqueness"),
       Line("Integrity"), Line(""),
       Line("## Detailed Analysis"), Line("") >>
    \o Concat([j \in 1..Len(audit_data.columns) |->
                  TechnicalColumn(audit_data.columns[j], Infos(audit_data)[j])])
    \o << Line("## Quality Metrics"), Line(""),
          NumLine("Overall Quality Score: {}%", <<quality_score>>),
          NumLine("Data Completeness: {}%", <<calculate_completeness(audit_data)>>),
          NumLine("Data Consistency: {}%", <<calculate_consistency(audit_data)>>),
          NumLine("Data Accuracy: {}%", <<calculate_accuracy(audit_data)>>),
          Line(""),
          Line("## Technical Recommendations"), Line(""),
          Line("1. Implement Data Validation Rules"),
          Line("2. Establish Data Quality Monitoring"),
          Line("3. Optimize Data Processing Pipeline"),
          Line("4. Document Data Quality Standards"),
          Line("") >>

\* lines 249-317
generate_casual_story(rows_before, rows_after, duplicates_removed, major_issues, columns) ==
    << Line("# Your Data Cleanup Story"), Line(""),
       Line("## Hey there!"), Line(""),
       Line("Great news! We just finished cleaning up your data"), Line(""),
       Line("## What We Found"), Line("") >>
    \o Opt(duplicates_removed > 0,
           <<NumLine("Oops! We found {} duplicate records", <<duplicates_removed>>), Line("")>>)
    \o Opt(major_issues # <<>>,
           <<Line("Some data needed a little TLC")>> \o Take(major_issues, 3) \o <<Line("")>>)
    \o << Line("## The Results"), Line(""),
          NumLine("Before: {} records", <<rows_before>>),
          NumLine("After: {} clean, reliable records", <<rows_after>>),
          NumLine("What changed: {} records", <<rows_after - rows_before>>),
          Line(""),
          NumLine("We looked through {} different columns", <<Len(columns)>>),
          Line(""),
          Line("## What This Means for You"), Line(""),
          Line("Reliable Reports"), Line("Better Decisions"), Line("Time Saved"),
          Line("Professional Results"), Line(""),
          Line("## Fun Data Facts"), Line(""),
          Line("Data cleaning is like proofreading your data"),
          Line("Clean data can improve business decisions by up to 30%"),
          Line("Bad data costs companies an average of $15 million per year"),
          Line(""),
          Line("## What's Next?"), Line(""),
          Line("1. Download your clean data"), Line("2. Check out the detailed report"),
          Line("3. Keep it clean"), Line("4. Share the good news"), Line(""),
          Line("Thanks for trusting us with your data!") >>

\* lines 75-106
generate_local_story(audit_data, style) ==
    LET rows_before == Get(audit_data, "rows_before", 0)
        rows_after == Get(audit_data, "rows_after", 0)
        duplicates_removed == Get(audit_data, "duplicates_removed", 0)
        columns == Get(audit_data, "columns", <<>>)
        data_quality_score == calculate_quality_score(audit_data)
        major_issues == identify_major_issues(audit_data)
    IN  IF style = "executive"
        THEN generate_executive_story(rows_before, rows_after, duplicates_removed,
                                      data_quality_score, major_issues, columns)
        ELSE IF style = "technical"
        THEN generate_technical_story(audit_data, data_quality_score)
        ELSE generate_casual_story(rows_before, rows_after, duplicates_removed,
                                   major_issues, columns)

\* the characters of the shortest story each template can give: its fixed
\* lines with one digit per number and no optional line
MinStoryChars == 1201

\* line 64: a story shorter than this is sent to a text-generation service
EnhanceBelow == 500

\* lines 48-73; `enhanced` is the answer of _enhance_with_ai, <<>> for None
generate_story(audit_data, style, enhanced) ==
    LET story == generate_local_story(audit_data, style)
    IN  IF MinStoryChars < EnhanceBelow /\ enhanced # <<>> THEN enhanced ELSE story

-----------------------------------------------------------------------------
(* The narrative functions applied to summaries whose change map holds any
   subset of the change kinds *)

MaxChange == 1

IntKinds ==
    {"new_nulls_from_empty_strings", "parsed_to_datetime", "emails_valid_before",
     "emails_valid_after", "imputed_missing"}

\* the numbers of a change map; new_nulls_from_empty_strings can be -1
IntChanges ==
    UNION {{m \in [S -> -1..MaxChange] :
               \A k \in S : m[k] >= 0 \/ k = "new_nulls_from_empty_strings"} :
           S \in SUBSET IntKinds}

StrategyChanges ==
    {NoChanges}
    \cup {("imputation_strategy" :> s) :
             s \in {[kind |-> "median", val |-> Num(20)],
                    [kind |-> "mode (datetime)", val |-> NA]}}

ChangeMaps == {m @@ s : m \in IntChanges, s \in StrategyChanges}

\* rows_before and duplicates_removed of the summaries
StoryRows == {<<0, 0>>, <<1, 0>>, <<2, 0>>, <<2, 1>>}

StoryAudits ==
    {[rows_before        |-> r[1],
      rows_after         |-> r[1] - r[2],
      duplicates_removed |-> r[2],
      columns            |-> <<N_email>>,
      column_changes     |-> (N_email :> m),
      issues             |-> <<>>] : r \in StoryRows, m \in ChangeMaps}

Styles == {"executive", "technical", "casual", "other"}

\* the answers of the text-generation service: None or a generated text
Enhancements == {<<>>, <<Line("generated_text")>>}

NarrativeResponse(text) ==
    [status |-> 200, error |-> "", attachment |-> "", cleaner_ran |-> FALSE, body |-> text]

\* app.py line 159
AiExplain ==
    /\ request' = [route |-> "ai_explain", style |-> ""]
    /\ response' = NarrativeResponse(ai_explain(session["summary"]))
    /\ UNCHANGED <<session, uploaded, cleanerVars, heap>>

\* app.py lines 255 and 280
GenerateStory ==
    \E style \in Styles, enhanced \in Enhancements :
        /\ request' = [route |-> "generate_story", style |-> style]
        /\ response' = NarrativeResponse(generate_story(session["summary"], style, enhanced))
        /\ UNCHANGED <<session, uploaded, cleanerVars, heap>>

InitStory ==
    /\ session \in {Put(NoSession, "summary", a) : a \in StoryAudits}
    /\ request = NoRequest
    /\ response = NoResponse
    /\ uploaded = TRUE
    /\ heap = NoHeap
    /\ input = <<>>
    /\ df = <<>>
    /\ res = <<>>
    /\ mask = <<>>
    /\ audit = NewAudit(<<>>)
    /\ pc = "story"
    /\ run = 0
    /\ audit1 = NewAudit(<<>>)

NextStory == AiExplain \/ GenerateStory

SpecStory == InitStory /\ [][NextStory]_vars

\* the lines that report a change of kind k
KindLines(k) ==
    CASE k = "imputed_missing" ->
            {"Imputed {} missing values", "Missing data in {}", "Data Collection",
             "Missing values in {}", "Missing Values: {} values imputed using {}"}
      [] k = "new_nulls_from_empty_strings" ->
            {"Converted {} empty strings to nulls", "Empty strings in {}", "Input Validation",
             "Empty String Conversion: {} empty strings converted to null values"}
      [] k = "parsed_to_datetime" ->
            {"Parsed {} values as dates", "Date parsing in {}", "Date format issues in {}",
             "Date Parsing: {} values parsed as datetime objects"}
      [] k = "emails_valid_after" ->
            {"Normalized {} email addresses", "Email normalization in {}",
             "Email Normalization: {} email addresses normalized"}
      [] OTHER -> {}

Texts(narrative) == {narrative[i].text : i \in DOMAIN narrative}

\* the narrative the call of the current state gives for summary a
Narrative(a) ==
    IF request.route = "ai_explain" THEN ai_explain(a)
    ELSE generate_story(a, request.style, <<>>)

(* C21: ai_explain and generate_story, for every style, return a narrative for
   a summary whose change maps hold any subset of the change kinds; no line
   reports a kind whose key is absent, the narrative is the one of the same
   summary with that key at 0, and the narrative of ai_explain has the sections
   'Data Cleaning Overview', 'Key Metrics', 'Recommendations' and 'Next
   Steps'. *)
C21_NarrativesTolerateMissingKeys ==
    request.route \in {"ai_explain", "generate_story"} =>
        LET a == session["summary"]
            info == a.column_changes[N_email]
        IN  /\ response.status = 200
            /\ response.body # <<>>
            /\ response.body # SummaryGenerationError
            /\ \A k \in IntKinds \ DOMAIN info :
                  /\ KindLines(k) \cap Texts(response.body) = {}
                  /\ response.body =
                        Narrative([a EXCEPT !.column_changes = (N_email :> Put(info, k, 0))])
            /\ request.route = "ai_explain" =>
                  {"## Data Cleaning Overview", "## Key Metrics", "## Recommendations",
                   "## Next Steps"} \subseteq Texts(response.body)

C21_Witness ==
    /\ request.route = "generate_story"
    /\ request.style = "technical"
    /\ DOMAIN session["summary"].column_changes[N_email]
          = {"parsed_to_datetime", "imputation_strategy"}
    /\ session["summary"].column_changes[N_email]["parsed_to_datetime"] = 1
    /\ "Date Parsing: {} values parsed as datetime objects" \in Texts(response.body)
    /\ NumLine("Overall Quality Score: {}%", <<75>>) \in Range(response.body)

(* C22: a stage only adds to the audit: a key that column_changes holds for a
   column is still there with the same value after every later stage, and
   rows_before, columns and issues keep their initial values until the
   return; issues is empty. *)
C22_AuditAdditive ==
    [][run' = run =>
          /\ \A nm \in DOMAIN audit.column_changes :
                /\ nm \in DOMAIN audit'.column_changes
                /\ \A k \in Keys(audit, nm) :
                      /\ k \in Keys(audit', nm)
                      /\ audit'.column_changes[nm][k] = audit.column_changes[nm][k]
          /\ audit'.rows_before = audit.rows_before
          /\ audit'.columns = audit.columns
          /\ audit'.issues = audit.issues
          /\ audit'.issues = <<>>]_vars

C22_Witness ==
    /\ pc = "done"
    /\ run = 1
    /\ audit.issues = <<>>
    /\ audit.rows_before = 3
    /\ \E nm \in DOMAIN audit.column_changes :
          /\ Keys(audit, nm) = {"new_nulls_from_empty_strings", "emails_valid_before",
                                "emails_valid_after", "imputed_missing",
                                "imputation_strategy"}
          /\ audit.column_changes[nm]["new_nulls_from_empty_strings"] = 1

-----------------------------------------------------------------------------
(* build_audit_summary on objects: heap.objects[id] is the dict or list with
   identity id, a dict entry that holds a dict or a list holds its id *)

MaxWrites == 2

\* the audit that clean_dataframe returned
AuditRef == 1

\* the position of column nm in the list of columns
IndexOf(columns, nm) == CHOOSE j \in 1..Len(columns) : columns[j] = nm

\* cleaner.py lines 9-16: the audit dict, its list of columns, its dict of
\* per-column dicts, its list of issues, and one dict per column
AuditObjects(a) ==
    << [rows_before |-> a.rows_before, rows_after |-> a.rows_after,
        duplicates_removed |-> a.duplicates_removed,
        columns |-> 2, column_changes |-> 3, issues |-> 4],
       a.columns,
       [nm \in DOMAIN a.column_changes |-> 4 + IndexOf(a.columns, nm)],
       a.issues >>
    \o [j \in 1..Len(a.columns) |-> a.column_changes[a.columns[j]]]

\* the nested value reached from the dict with identity id
View(objects, id) ==
    LET o == objects[id]
    IN  [rows_before        |-> o.rows_before,
         rows_after         |-> o.rows_after,
         duplicates_removed |-> o.duplicates_removed,
         columns            |-> objects[o.columns],
         column_changes     |-> [nm \in DOMAIN objects[o.column_changes] |->
                                    objects[objects[o.column_changes][nm]]],
         issues             |-> objects[o.issues]]

\* line 101 storing info itself
SummaryInfo_Alias(info, pretty) == info

\* lines 98-101: summary["column_changes"][col] is the new dict pretty
SummaryInfo(info, pretty) == pretty

\* cleaner.py lines 88-102
BuildSummary ==
    /\ heap.summary = 0
    /\ LET o == heap.objects
           n == Len(o)
           a == o[AuditRef]
           columns == o[a.columns]
           summary == [rows_before |-> a.rows_before, rows_after |-> a.rows_after,
                       duplicates_removed |-> a.duplicates_removed,
                       columns |-> a.columns, column_changes |-> n + 2,
                       issues |-> a.issues]
           changes == [nm \in DOMAIN o[a.column_changes] |->
                          SummaryInfo(o[a.column_changes][nm], n + 2 + IndexOf(columns, nm))]
           pretty == [j \in 1..Len(columns) |->
                         LET info == o[o[a.column_changes][columns[j]]]
                         IN  [k \in DOMAIN info |-> info[k]]]
       IN  heap' = [objects |-> o \o <<summary, changes>> \o pretty,
                    summary |-> n + 1, writes |-> 0]
    /\ UNCHANGED <<session, request, response, uploaded, cleanerVars>>

\* a caller's summary["column_changes"][col][key] = val
WriteSummary ==
    /\ heap.summary # 0
    /\ heap.writes < MaxWrites
    /\ LET o == heap.objects
           changes == o[o[heap.summary].column_changes]
       IN  \E nm \in DOMAIN changes, key \in IntKinds, val \in 0..MaxChange :
               heap' = [heap EXCEPT !.objects[changes[nm]] = Put(@, key, val),
                                    !.writes = @ + 1]
    /\ UNCHANGED <<session, request, response, uploaded, cleanerVars>>

\* the audits build_audit_summary is given: those clean_dataframe returns
SummaryFrames == UNION {Frames(sc, n) : sc \in Schemas, n \in 0..MaxUploadRows}

InitSummary ==
    /\ audit \in {clean_dataframe(d).audit : d \in SummaryFrames}
    /\ heap = [objects |-> AuditObjects(audit), summary |-> 0, writes |-> 0]
    /\ session = NoSession
    /\ request = NoRequest
    /\ response = NoResponse
    /\ uploaded = FALSE
    /\ input = <<>>
    /\ df = <<>>
    /\ res = <<>>
    /\ mask = <<>>
    /\ pc = "summary"
    /\ run = 0
    /\ audit1 = NewAudit(<<>>)

NextSummary == BuildSummary \/ WriteSummary

SpecSummary == InitSummary /\ [][NextSummary]_vars

(* C23: the summary build_audit_summary returns equals the audit it is given
   in rows_before, rows_after, duplicates_removed, columns, issues and every
   per-column change map, key for key and value for value; the audit is not
   modified, neither by the call nor by a later write of a key into a
   per-column map of the summary. *)
C23_SummaryIsCopy ==
    [][/\ View(heap'.objects, AuditRef) = audit
       /\ (heap.summary = 0 /\ heap'.summary # 0) =>
             /\ View(heap'.objects, heap'.summary) = audit
             /\ View(heap'.objects, heap'.summary) = build_audit_summary(audit)]_vars

C23_Witness ==
    /\ heap.summary # 0
    /\ heap.writes = 2
    /\ \E nm \in DOMAIN audit.column_changes :
          /\ "imputed_missing" \in Keys(audit, nm)
          /\ "parsed_to_datetime" \notin Keys(audit, nm)
          /\ View(heap.objects, heap.summary).column_changes[nm]["imputed_missing"]
                # audit.column_changes[nm]["imputed_missing"]
          /\ "parsed_to_datetime"
                \in DOMAIN View(heap.objects, heap.summary).column_changes[nm]

\* the cells of column c that hold an empty or whitespace-only text
BlankCount(c) ==
    Cardinality({i \in 1..Len(c.vals) : c.vals[i].k = "str" /\ Strip(c.vals[i].s) = <<>>})

(* C24: stage 1 never decreases the number of nulls of a column, and
   new_nulls_from_empty_strings, when recorded, is positive and is the number
   of cells of the column that held an empty or whitespace-only text on
   input, also for a column that already holds nulls. *)
C24_NewNullsCountsBlanks ==
    pc = "dates" =>
        \A j \in Cols(input) :
            IsObject(input[j]) =>
                /\ NullCount(df[j].vals) >= NullCount(input[j].vals)
                /\ "new_nulls_from_empty_strings" \in Keys(audit, input[j].name) =>
                      /\ audit.column_changes[input[j].name]["new_nulls_from_empty_strings"] > 0
                      /\ audit.column_changes[input[j].name]["new_nulls_from_empty_strings"]
                            = BlankCount(input[j])

\* s with every U+212A KELVIN SIGN replaced by the letter k
KelvinAsK(s) == [i \in 1..Len(s) |-> IF s[i] = "KELVIN" THEN "k" ELSE s[i]]

\* the cells of vals that do not match the email pattern as they are and match
\* it with k in the place of U+212A
MatchingByKelvin(vals) ==
    {i \in 1..Len(vals) : /\ vals[i].k = "str"
                          /\ ~EMAIL_RE(vals[i].s)
                          /\ EMAIL_RE(KelvinAsK(vals[i].s))}

(* C25 as claimed: for every email column emails_valid_after equals
   emails_valid_before. *)
C25_CountsEqual ==
    \A nm \in DOMAIN audit.column_changes :
        "emails_valid_after" \in Keys(audit, nm) =>
            audit.column_changes[nm]["emails_valid_after"]
               = audit.column_changes[nm]["emails_valid_before"]

(* C25 amended: emails_valid_after is emails_valid_before plus the number of
   values that fail the pattern only because of a U+212A KELVIN SIGN, which
   str.lower() turns into the letter k; the counts are equal for a column
   without such a value. *)
C25_CountsDifferByKelvin ==
    [][pc = "emails" =>
          \A j \in Cols(df) :
              "emails_valid_after" \in Keys(audit', df[j].name) =>
                  audit'.column_changes[df[j].name]["emails_valid_after"]
                     = audit'.column_changes[df[j].name]["emails_valid_before"]
                       + Cardinality(MatchingByKelvin(df[j].vals))]_vars

C25_Witness ==
    /\ pc = "dedup"
    /\ \E j \in Cols(input) :
          /\ input[j].name = N_Email
          /\ input[j].vals = <<Str(T_MailKelvin), Str(T_MailUp), Str(T_Bad)>>
          /\ audit.column_changes[N_Email]["emails_valid_before"] = 1
          /\ audit.column_changes[N_Email]["emails_valid_after"] = 2

\* what clean_dataframe returns for each file of the model
UploadResults == [d \in UploadFrames |-> clean_dataframe(d)]

(* C26: the session holds 'cleaned_data' and 'summary' both or neither; an
   upload answered with 200 stores the cleaned data and the summary of its
   own file, every other request (an upload answered with 400 or 500, a
   download) leaves the session as it was, and a download serves what the
   session holds: the results of the most recent upload that succeeded. *)
C26_SessionHoldsLastSuccess ==
    [][/\ ("cleaned_data" \in DOMAIN session') <=> ("summary" \in DOMAIN session')
       /\ IF request'.route = "/upload" /\ response'.status = 200
          THEN LET r == UploadResults[request'.frame]
               IN  /\ session'["cleaned_data"] = ToCsv(r.cleaned)
                   /\ session'["summary"] = build_audit_summary(r.audit)
          ELSE session' = session
       /\ (request'.route = "/download/csv" /\ "cleaned_data" \in DOMAIN session) =>
             response'.body = session["cleaned_data"]
       /\ (request'.route = "/download/report" /\ "summary" \in DOMAIN session) =>
             response'.body = Report(session["summary"])]_vars

C26_Witness ==
    /\ request.route = "/upload"
    /\ request.filename = N_csv
    /\ ~request.readable
    /\ response.status = 500
    /\ "cleaned_data" \in DOMAIN session
    /\ session["summary"].rows_before = 2
    /\ session["summary"].rows_after = 1
    /\ Len(session["cleaned_data"].lines) = 1

(* C27: clean_dataframe changes the caller's data frame through stages 1 to 3
   only; deduplication and imputation work on a copy, so when the call returns
   the caller's object has rows_before rows and the nulls that were imputed in
   the returned data frame are still null in it. *)
C27_CallerKeepsRowsAndNulls ==
    pc = "done" =>
        /\ df = [j \in 1..Len(input) |-> EmailCol(ParseCol(TrimCol(input[j])))]
        /\ NRows(df) = audit.rows_before
        /\ \A j \in Cols(df) :
              "imputed_missing" \in Keys(audit, df[j].name) => HasNull(df[j])

C27_Witness ==
    /\ pc = "done"
    /\ run = 1
    /\ NRows(df) = 4
    /\ NRows(res) = 3
    /\ \E j \in Cols(df) :
          /\ "imputed_missing" \in Keys(audit, df[j].name)
          /\ HasNull(df[j])
          /\ ~HasNull(res[j])
          /\ df[j].vals # input[j].vals

(* C28: no column has both parsed_to_datetime and emails_valid_before or
   emails_valid_after in the audit; a textual column whose name matches both
   the date and the email test gets the email counts exactly when stage 2 did
   not convert it. *)
C28_ParsedOrEmailNeverBoth ==
    /\ \A nm \in DOMAIN audit.column_changes :
          "parsed_to_datetime" \in Keys(audit, nm) =>
              Keys(audit, nm) \cap {"emails_valid_before", "emails_valid_after"} = {}
    /\ pc \in {"dedup", "impute", "done"} =>
          \A j \in Cols(input) :
              (IsObject(input[j]) /\ IsEmailName(input[j].name) /\ IsDateName(input[j].name)) =>
                  /\ "emails_valid_before" \in Keys(audit, input[j].name)
                        <=> "parsed_to_datetime" \notin Keys(audit, input[j].name)
                  /\ "emails_valid_after" \in Keys(audit, input[j].name)
                        <=> "parsed_to_datetime" \notin Keys(audit, input[j].name)

C28_Witness ==
    /\ pc = "done"
    /\ run = 1
    /\ \E j \in Cols(input) :
          /\ input[j].name = N_email_date
          /\ input[j].vals = <<Str(T_MailUp), Str(T_Jan)>>
          /\ Keys(audit, N_email_date) = {"parsed_to_datetime", "imputed_missing",
                                          "imputation_strategy"}
          /\ audit.column_changes[N_email_date]["parsed_to_datetime"] = 1

(* C29: stage 5 changes null cells only: a cell that is non-null after the
   de-duplication has the same value in the returned data frame, and in a
   column that is not entirely null a null cell gets one of the column's
   non-null values (textual and datetime columns) or a number between the
   least and the greatest non-null number of the column (numeric columns). *)
C29_ImputeFillsNullsOnly ==
    [][pc = "impute" =>
          \A j \in Cols(res) : \A i \in 1..NRows(res) :
              LET old == res[j].vals[i]
                  new == res'[j].vals[i]
                  present == {res[j].vals[h] : h \in NonNull(res[j].vals)}
              IN  IF ~IsNa(old) THEN new = old
                  ELSE present # {} =>
                          IF IsNumeric(res[j])
                          THEN /\ new.k = "num"
                               /\ \E lo \in present : lo.n <= new.n
                               /\ \E hi \in present : new.n <= hi.n
                          ELSE new \in present]_vars

C29_Witness ==
    /\ pc = "done"
    /\ run = 1
    /\ \E j \in Cols(res) :
          /\ res[j].name = N_age
          /\ Loc(df, mask)[j].vals = <<Num(20), NA, Num(40)>>
          /\ res[j].vals = <<Num(20), Num(30), Num(40)>>

(* C30: stage 4 does not change a value of a row it keeps: the lower-casing
   and stripping of the comparison key are done on a copy, so every row that
   survives has after stage 4 the cell values it had after stage 3, and no
   text of it is lower-cased. *)
C30_KeptRowsUnchanged ==
    [][pc = "dedup" =>
          /\ df' = df
          /\ \A j \in Cols(df) : res'[j].name = df[j].name /\ res'[j].dtype = df[j].dtype
          /\ \A i \in Rows(df) :
                mask'[i] =>
                    \A j \in Cols(df) :
                        res'[j].vals[Cardinality({h \in 1..i : mask'[h]})] = df[j].vals[i]]_vars

C30_Witness ==
    /\ pc = "impute"
    /\ run = 1
    /\ audit.duplicates_removed = 1
    /\ NRows(df) = 3
    /\ \E j \in Cols(res) :
          /\ res[j].name = N_name
          /\ df[j].vals = <<Str(T_john), Str(T_John), Str(T_Bad)>>
          /\ res[j].vals = <<Str(T_john), Str(T_Bad)>>


=============================================================================
